---- MODULE Spec2Model ----
(***************************************************************************)
(* Model of the GAP directory structure validator.                         *)
(*                                                                         *)
(*   src/scripts/validate-structure.js   discovery + single-directory CLI  *)
(*   src/unnamed/part_000                single-directory-only CLI         *)
(*                                                                         *)
(* A run is one process: it reads its positional arguments and the         *)
(* repository root, walks the checks of each directory in program order    *)
(* and terminates through process.exit(1) on the first failure or by       *)
(* falling off the end of main (status 0).  Text is a sequence of          *)
(* one-character strings; a path is a sequence of path components.         *)
(***************************************************************************)
EXTENDS Integers, Sequences, FiniteSets, TLC

(* ------------------------------ bounds --------------------------------- *)
MaxEntries == 3
MaxAuthors == 2
MaxSuffixLen == 5

(* ------------------------------ text ----------------------------------- *)
SeqsUpTo(S, n) == UNION {[1..k -> S] : k \in 0..n}

Digit == {"0", "1", "2", "3", "4", "5", "6", "7", "8", "9"}

GapPrefix == <<"G", "A", "P", "-">>

GAP0 == <<"G", "A", "P", "-", "0">>

NoText == <<>>

(* String.prototype.startsWith with a one-character needle *)
startsWith(s, c) == Len(s) >= 1 /\ s[1] = c

(* the regular expression /^GAP-\d{4}/, without the closing anchor *)
testGapNNNN_unanchored(s) ==
    /\ Len(s) >= 8
    /\ SubSeq(s, 1, 4) = GapPrefix
    /\ \A i \in 5..8 : s[i] \in Digit

(* the regular expression /^GAP-\d{4}$/ *)
testGapNNNN(s) ==
    /\ Len(s) = 8
    /\ SubSeq(s, 1, 4) = GapPrefix
    /\ \A i \in 5..8 : s[i] \in Digit

(* the regular expression /^GAP-/ *)
testGapPrefix(s) == Len(s) >= 4 /\ SubSeq(s, 1, 4) = GapPrefix

(* ------------------------------ paths ---------------------------------- *)
(* join(__dirname, "..") : the repository root *)
rootDir == << <<"r">> >>

join(dir, name) == Append(dir, name)

basename(path) == IF Len(path) = 0 THEN NoText ELSE path[Len(path)]

RECURSIVE pathText(_)
pathText(path) ==
    IF Len(path) = 0 THEN NoText
    ELSE IF Len(path) = 1 THEN path[1]
    ELSE path[1] \o <<"/">> \o pathText(Tail(path))

(* ------------------------ external libraries --------------------------- *)
(* sample author strings: "a@b", "J <a@b>", "J", "x" *)
AuthorBare == <<"a", "@", "b">>

AuthorDisplay == <<"J", " ", "<", "a", "@", "b", ">">>

AuthorNoEmail == <<"J">>

AuthorJunk == <<"x">>

(* validator.isEmail(author, { allow_display_name: true }) on the samples *)
isEmail(author) == author \in {AuthorBare, AuthorDisplay}

UrlGood == <<"h", ":", "/", "/", "e">>

UrlBad == <<"n", "o">>

(* validator.isURL(discussion) on the samples *)
isURL(discussion) == discussion = UrlGood

SponsorGood == <<"@", "a">>

SponsorBad == <<"a">>

(* --------------------------- metadata.yml ------------------------------ *)
(* A parsed YAML value: its JavaScript kind, whether it has the shape the  *)
(* schema requires, and the three fields the semantic checks read.         *)
YamlTypes == {"mapping", "sequence", "null", "string", "number", "boolean"}

Value(t, c, a, s, d) ==
    [type |-> t, conforms |-> c, authors |-> a, sponsor |-> s, discussion |-> d]

NoValue == Value("null", FALSE, <<>>, NoText, NoText)

(* the JavaScript typeof operator on a parsed YAML value *)
typeof(v) ==
    IF v.type \in {"mapping", "sequence", "null"} THEN "object" ELSE v.type

(* metadata.schema.json: accepts a mapping with authors: array of string,  *)
(* sponsor: string, discussion: string                                     *)
metadataSchema(v) == v.type = "mapping" /\ v.conforms

(* the compiled validator, ajv.compile(metadataSchema) *)
validateMetadataSchema(v) == metadataSchema(v)

(* the last author that fails isEmail; 0 when none *)
RECURSIVE lastInvalidAuthor(_, _)
lastInvalidAuthor(authors, i) ==
    IF i < 1 THEN 0
    ELSE IF ~isEmail(authors[i]) THEN i
    ELSE lastInvalidAuthor(authors, i - 1)

firstInvalidAuthor_last(authors) == lastInvalidAuthor(authors, Len(authors))

(* for (const author of metadata.authors): the first author that fails   *)
(* isEmail, in sequence order; 0 when none                                 *)
RECURSIVE authorLoop(_, _)
authorLoop(authors, i) ==
    IF i > Len(authors) THEN 0
    ELSE IF ~isEmail(authors[i]) THEN i
    ELSE authorLoop(authors, i + 1)

firstInvalidAuthor(authors) == authorLoop(authors, 1)

(* The metadata.yml of a directory: present or not, readable or not, its   *)
(* text well-formed YAML or not, and the value the text parses to.         *)
MetaFile(e, r, w, v) == [exists |-> e, readable |-> r, wellformed |-> w, value |-> v]

(* --------------------------- input domains ----------------------------- *)
NameGap0001 == <<"G", "A", "P", "-", "0", "0", "0", "1">>

NameGap0002 == <<"G", "A", "P", "-", "0", "0", "0", "2">>

NameGap12 == <<"G", "A", "P", "-", "1", "2">>

NameDocs == <<"d", "o", "c", "s">>

SampleNames == {NameGap0001, NameGap0002, GAP0, NameGap12, NameDocs}

AuthorSamples == {AuthorBare, AuthorDisplay, AuthorNoEmail, AuthorJunk}

SponsorSamples == {SponsorGood, SponsorBad, NoText}

UrlSamples == {UrlGood, UrlBad}

ConformingValues ==
    {Value("mapping", TRUE, a, s, d) :
        a \in SeqsUpTo(AuthorSamples, MaxAuthors), s \in SponsorSamples, d \in UrlSamples}

OtherValues == {Value(t, FALSE, <<>>, NoText, NoText) : t \in YamlTypes}

RichMetas ==
    {MetaFile(FALSE, FALSE, FALSE, NoValue),
     MetaFile(TRUE, FALSE, FALSE, NoValue),
     MetaFile(TRUE, TRUE, FALSE, NoValue)}
    \cup {MetaFile(TRUE, TRUE, TRUE, v) : v \in ConformingValues \cup OtherValues}

GoodMeta ==
    MetaFile(TRUE, TRUE, TRUE, Value("mapping", TRUE, <<AuthorBare>>, SponsorGood, UrlGood))

BadSponsorMeta ==
    MetaFile(TRUE, TRUE, TRUE, Value("mapping", TRUE, <<AuthorBare>>, SponsorBad, UrlGood))

NoMeta == MetaFile(FALSE, FALSE, FALSE, NoValue)

(* an entry of the repository root *)
Node(n, d, r, m) == [name |-> n, isDir |-> d, readme |-> r, meta |-> m]

FileNode(n) == Node(n, FALSE, FALSE, NoMeta)

RichNodes(n) ==
    {FileNode(n)} \cup {Node(n, TRUE, r, m) : r \in BOOLEAN, m \in RichMetas}

CoarseNodes(n) ==
    {FileNode(n), Node(n, TRUE, TRUE, GoodMeta), Node(n, TRUE, TRUE, BadSponsorMeta)}

(* listings of the repository root: entry names are distinct *)
DistinctNames(l) == \A i, j \in 1..Len(l) : i # j => l[i] # l[j]

NameLists == {l \in SeqsUpTo(SampleNames, MaxEntries) : DistinctNames(l)}

RichNames == {NameGap0001, NameGap12, NameDocs}

RichListings == {<<>>} \cup {<<e>> : e \in UNION {RichNodes(n) : n \in RichNames}}

CoarseListings ==
    UNION {{l \in [1..Len(ns) -> UNION {CoarseNodes(n) : n \in SampleNames}] :
                \A i \in 1..Len(ns) : l[i].name = ns[i]} : ns \in NameLists}

Listings == RichListings \cup CoarseListings

ArgPaths == {join(rootDir, n) : n \in RichNames}

ArgLists ==
    {<<>>} \cup {<<p>> : p \in ArgPaths}
    \cup {<<join(rootDir, NameGap0001), join(rootDir, GAP0)>>,
          <<join(rootDir, NameGap0001), join(rootDir, NameGap0001), join(rootDir, NameDocs)>>}

Scripts == {"validate-structure.js", "part_000"}

(* ------------------------------ state ---------------------------------- *)
VARIABLES
    script,      \* which of the two entry points runs
    positionals, \* parseArgs(...).positionals
    entries,     \* readdirSync(rootDir): the root's entries, in listing order
    pc,          \* the statement the process is at
    mode,        \* the branch of main that is active
    gapDirs,     \* main's gapDirs
    idx,         \* position of the for-of loop over gapDirs
    dirPath,     \* validateGapDirectory's dirPath
    gapName,     \* the name validateDirectoryNaming returned
    content,     \* validateMetadata's content
    metadata,    \* validateMetadata's metadata
    stdout,      \* lines written by console.log
    stderr,      \* lines written by console.error
    exitCode,    \* the process's exit status, once pc = "exit"
    executed     \* history: the checks run so far, <<directory, check>>

vars ==
    <<script, positionals, entries, pc, mode, gapDirs, idx, dirPath, gapName,
      content, metadata, stdout, stderr, exitCode, executed>>

inputs == <<script, positionals, entries>>

(* ---------------------------- file system ------------------------------ *)
nodeIndex(path) ==
    IF \E i \in 1..Len(entries) : join(rootDir, entries[i].name) = path
    THEN CHOOSE i \in 1..Len(entries) : join(rootDir, entries[i].name) = path
    ELSE 0

existsSync(path) == nodeIndex(path) # 0

(* a guard that takes every existing path for a directory *)
isDirectory_always(path) == TRUE

(* statSync(path).isDirectory() *)
isDirectory(path) == entries[nodeIndex(path)].isDir

(* a README check that looks at metadata.yml instead *)
readmeExists_checksMetadata(path) == entries[nodeIndex(path)].meta.exists

(* existsSync(join(path, "README.md")) *)
readmeExists(path) == entries[nodeIndex(path)].readme

(* the file at join(path, "metadata.yml") *)
metadataFile(path) == entries[nodeIndex(path)].meta

(* ------------------------------ output --------------------------------- *)
Line(g, m, x) == [gapName |-> g, message |-> m, got |-> x]

OutLine(g, m, n) == [gapName |-> g, message |-> m, count |-> n]

MsgNaming == "Invalid directory name format. Expected GAP-NNNN (4 digits, zero-padded)"

MsgReadme == "No README.md file found"

MsgNoMetadata == "No metadata.yml file found"

MsgRead == "Failed to read metadata.yml"

MsgYaml == "Invalid YAML in metadata.yml"

MsgObject == "metadata.yml must contain a valid YAML object"

MsgSchema == "metadata.yml validation failed"

MsgAuthor == "metadata.yml invalid author"

MsgSponsor == "metadata.yml sponsor must be a GitHub username starting with @"

MsgDiscussion == "metadata.yml discussion must be a valid URL"

MsgMissingDir == "Directory does not exist"

MsgNotDir == "Not a directory"

MsgUsage == "Usage: ./scripts/validate-structure.js [gap-directory]"

MsgUsageOne == "Usage: ./scripts/validate-structure.js <gap-directory>"

MsgNoGaps == "No GAP directories found"

MsgFound == "Found GAP directories"

MsgValidated == "validated successfully"

(* process.exit() without the status *)
fail_status0(line) ==
    /\ stderr' = Append(stderr, line)
    /\ exitCode' = 0
    /\ pc' = "exit"

(* console.error(line); process.exit(1) *)
fail(line) ==
    /\ stderr' = Append(stderr, line)
    /\ exitCode' = 1
    /\ pc' = "exit"

(* function error(gapName, message) *)
error(g, m, x) == fail(Line(g, m, x))

ran(check) == executed' = Append(executed, <<dirPath, check>>)

(* ----------------------------- discovery ------------------------------- *)
(* entries.filter(isDirectory && /^GAP-/).map(join(rootDir, name)) *)
RECURSIVE filterMap_noDirCheck(_)
filterMap_noDirCheck(es) ==
    IF es = <<>> THEN <<>>
    ELSE (IF testGapPrefix(Head(es).name)
          THEN <<join(rootDir, Head(es).name)>>
          ELSE <<>>) \o filterMap_noDirCheck(Tail(es))

RECURSIVE filterMap(_)
filterMap(es) ==
    IF es = <<>> THEN <<>>
    ELSE (IF Head(es).isDir /\ testGapPrefix(Head(es).name)
          THEN <<join(rootDir, Head(es).name)>>
          ELSE <<>>) \o filterMap(Tail(es))

discoverGapDirectories_noDirCheck == filterMap_noDirCheck(entries)

discoverGapDirectories == filterMap(entries)

(* ------------------------------ actions -------------------------------- *)
Init ==
    /\ script \in Scripts
    /\ positionals \in ArgLists
    /\ entries \in Listings
    /\ pc = "main"
    /\ mode = "none"
    /\ gapDirs = <<>>
    /\ idx = 0
    /\ dirPath = <<>>
    /\ gapName = NoText
    /\ content = NoMeta
    /\ metadata = NoValue
    /\ stdout = <<>>
    /\ stderr = <<>>
    /\ exitCode = 0
    /\ executed = <<>>

(* validate-structure.js main(): the branch taken for n positionals *)
selectMode_ignoreExtra(n) == IF n = 0 THEN "discovery" ELSE "single"

selectMode(n) ==
    IF n = 0 THEN "discovery" ELSE IF n = 1 THEN "single" ELSE "usage"

(* part_000 main(): the branch taken for n positionals *)
selectMode_part_000(n) == IF n # 1 THEN "usage" ELSE "single"

(* validate-structure.js main(): choose the mode from positionals.length;  *)
(* in discovery mode, discover, stop on an empty result, print the count   *)
main ==
    /\ pc = "main"
    /\ script = "validate-structure.js"
    /\ IF selectMode(Len(positionals)) = "discovery"
       THEN /\ gapDirs' = discoverGapDirectories
            /\ IF Len(gapDirs') = 0
               THEN /\ fail(Line(NoText, MsgNoGaps, NoText))
                    /\ UNCHANGED <<mode, idx, stdout>>
               ELSE /\ stdout' = Append(stdout, OutLine(NoText, MsgFound, Len(gapDirs')))
                    /\ mode' = "discovery"
                    /\ idx' = 1
                    /\ pc' = "loop"
                    /\ UNCHANGED <<stderr, exitCode>>
            /\ UNCHANGED dirPath
       ELSE IF selectMode(Len(positionals)) = "single"
       THEN /\ dirPath' = positionals[1]
            /\ mode' = "single"
            /\ pc' = "validateGapDirectory"
            /\ UNCHANGED <<gapDirs, idx, stdout, stderr, exitCode>>
       ELSE /\ fail(Line(NoText, MsgUsage, NoText))
            /\ UNCHANGED <<mode, gapDirs, idx, dirPath, stdout>>
    /\ UNCHANGED <<inputs, gapName, content, metadata, executed>>

(* the loop of main, were a failure to end only the current directory *)
forOf_resume ==
    \/ /\ pc = "loop"
       /\ IF idx <= Len(gapDirs)
          THEN /\ dirPath' = gapDirs[idx]
               /\ pc' = "validateGapDirectory"
          ELSE /\ pc' = "exit"
               /\ UNCHANGED dirPath
       /\ UNCHANGED <<inputs, mode, gapDirs, idx, gapName, content, metadata,
                      stdout, stderr, exitCode, executed>>
    \/ /\ pc = "exit"
       /\ mode = "discovery"
       /\ exitCode = 1
       /\ idx < Len(gapDirs)
       /\ idx' = idx + 1
       /\ dirPath' = gapDirs[idx + 1]
       /\ pc' = "validateGapDirectory"
       /\ UNCHANGED <<inputs, mode, gapDirs, gapName, content, metadata,
                      stdout, stderr, exitCode, executed>>

(* validate-structure.js main(): for (const dir of gapDirs); falling off   *)
(* the end of main ends the process with status 0                          *)
forOf ==
    /\ pc = "loop"
    /\ IF idx <= Len(gapDirs)
       THEN /\ dirPath' = gapDirs[idx]
            /\ pc' = "validateGapDirectory"
       ELSE /\ pc' = "exit"
            /\ UNCHANGED dirPath
    /\ UNCHANGED <<inputs, mode, gapDirs, idx, gapName, content, metadata,
                   stdout, stderr, exitCode, executed>>

(* validate-structure.js validateGapDirectory(): the two guards on dirPath *)
validateGapDirectory ==
    /\ pc = "validateGapDirectory"
    /\ IF ~existsSync(dirPath)
       THEN fail(Line(NoText, MsgMissingDir, pathText(dirPath)))
       ELSE IF ~isDirectory(dirPath)
       THEN fail(Line(NoText, MsgNotDir, pathText(dirPath)))
       ELSE /\ pc' = "naming"
            /\ UNCHANGED <<stderr, exitCode>>
    /\ UNCHANGED <<inputs, mode, gapDirs, idx, dirPath, gapName, content, metadata,
                   stdout, executed>>

(* part_000 main(): exactly one positional, which exists and is a directory *)
main_part_000 ==
    /\ pc = "main"
    /\ script = "part_000"
    /\ IF selectMode_part_000(Len(positionals)) = "usage"
       THEN /\ fail(Line(NoText, MsgUsageOne, NoText))
            /\ UNCHANGED <<dirPath, mode>>
       ELSE /\ dirPath' = positionals[1]
            /\ IF ~existsSync(dirPath')
               THEN /\ fail(Line(NoText, MsgMissingDir, pathText(dirPath')))
                    /\ UNCHANGED mode
               ELSE IF ~isDirectory(dirPath')
               THEN /\ fail(Line(NoText, MsgNotDir, pathText(dirPath')))
                    /\ UNCHANGED mode
               ELSE /\ mode' = "single"
                    /\ pc' = "naming"
                    /\ UNCHANGED <<stderr, exitCode>>
    /\ UNCHANGED <<inputs, gapDirs, idx, gapName, content, metadata, stdout, executed>>

(* the decision of validateDirectoryNaming: GAP-0, or GAP-NNNN *)
namingAccepts(dirName) == dirName = GAP0 \/ testGapNNNN(dirName)

validateDirectoryNaming ==
    /\ pc = "naming"
    /\ ran("naming")
    /\ LET dirName == basename(dirPath) IN
       IF namingAccepts(dirName)
       THEN /\ gapName' = dirName
            /\ pc' = "readme"
            /\ UNCHANGED <<stderr, exitCode>>
       ELSE /\ error(dirName, MsgNaming, NoText)
            /\ UNCHANGED gapName
    /\ UNCHANGED <<inputs, mode, gapDirs, idx, dirPath, content, metadata, stdout>>

validateReadmeExists ==
    /\ pc = "readme"
    /\ ran("readme")
    /\ IF ~readmeExists(dirPath)
       THEN error(gapName, MsgReadme, NoText)
       ELSE /\ pc' = "metadataExists"
            /\ UNCHANGED <<stderr, exitCode>>
    /\ UNCHANGED <<inputs, mode, gapDirs, idx, dirPath, gapName, content, metadata,
                   stdout>>

(* validateMetadata, statement by statement *)
validateMetadata_exists ==
    /\ pc = "metadataExists"
    /\ ran("metadataExists")
    /\ IF ~metadataFile(dirPath).exists
       THEN error(gapName, MsgNoMetadata, NoText)
       ELSE /\ pc' = "read"
            /\ UNCHANGED <<stderr, exitCode>>
    /\ UNCHANGED <<inputs, mode, gapDirs, idx, dirPath, gapName, content, metadata,
                   stdout>>

validateMetadata_read ==
    /\ pc = "read"
    /\ ran("read")
    /\ IF ~metadataFile(dirPath).readable
       THEN /\ error(gapName, MsgRead, NoText)
            /\ UNCHANGED content
       ELSE /\ content' = metadataFile(dirPath)
            /\ pc' = "parse"
            /\ UNCHANGED <<stderr, exitCode>>
    /\ UNCHANGED <<inputs, mode, gapDirs, idx, dirPath, gapName, metadata, stdout>>

validateMetadata_parse ==
    /\ pc = "parse"
    /\ ran("parse")
    /\ IF ~content.wellformed
       THEN /\ error(gapName, MsgYaml, NoText)
            /\ UNCHANGED metadata
       ELSE /\ metadata' = content.value
            /\ pc' = "typeof"
            /\ UNCHANGED <<stderr, exitCode>>
    /\ UNCHANGED <<inputs, mode, gapDirs, idx, dirPath, gapName, content, stdout>>

validateMetadata_typeof ==
    /\ pc = "typeof"
    /\ ran("typeof")
    /\ IF typeof(metadata) # "object"
       THEN error(gapName, MsgObject, NoText)
       ELSE /\ pc' = "schema"
            /\ UNCHANGED <<stderr, exitCode>>
    /\ UNCHANGED <<inputs, mode, gapDirs, idx, dirPath, gapName, content, metadata,
                   stdout>>

validateMetadata_schema ==
    /\ pc = "schema"
    /\ ran("schema")
    /\ IF ~validateMetadataSchema(metadata)
       THEN error(gapName, MsgSchema, NoText)
       ELSE /\ pc' = "authors"
            /\ UNCHANGED <<stderr, exitCode>>
    /\ UNCHANGED <<inputs, mode, gapDirs, idx, dirPath, gapName, content, metadata,
                   stdout>>

validateMetadata_authors ==
    /\ pc = "authors"
    /\ ran("authors")
    /\ LET bad == firstInvalidAuthor(metadata.authors) IN
       IF bad # 0
       THEN error(gapName, MsgAuthor, metadata.authors[bad])
       ELSE /\ pc' = "sponsor"
            /\ UNCHANGED <<stderr, exitCode>>
    /\ UNCHANGED <<inputs, mode, gapDirs, idx, dirPath, gapName, content, metadata,
                   stdout>>

validateMetadata_sponsor ==
    /\ pc = "sponsor"
    /\ ran("sponsor")
    /\ IF ~startsWith(metadata.sponsor, "@")
       THEN error(gapName, MsgSponsor, metadata.sponsor)
       ELSE /\ pc' = "discussion"
            /\ UNCHANGED <<stderr, exitCode>>
    /\ UNCHANGED <<inputs, mode, gapDirs, idx, dirPath, gapName, content, metadata,
                   stdout>>

(* the discussion check, were its failure printed without ending the run *)
validateMetadata_discussion_warnOnly ==
    /\ pc = "discussion"
    /\ ran("discussion")
    /\ IF ~isURL(metadata.discussion)
       THEN stderr' = Append(stderr, Line(gapName, MsgDiscussion, metadata.discussion))
       ELSE UNCHANGED stderr
    /\ pc' = "validated"
    /\ UNCHANGED <<inputs, mode, gapDirs, idx, dirPath, gapName, content, metadata,
                   stdout, exitCode>>

validateMetadata_discussion ==
    /\ pc = "discussion"
    /\ ran("discussion")
    /\ IF ~isURL(metadata.discussion)
       THEN error(gapName, MsgDiscussion, metadata.discussion)
       ELSE /\ pc' = "validated"
            /\ UNCHANGED <<stderr, exitCode>>
    /\ UNCHANGED <<inputs, mode, gapDirs, idx, dirPath, gapName, content, metadata,
                   stdout>>

(* validate-structure.js validateGapDirectory(): the success line, then the *)
(* return into main: the next loop round, or the end of main                *)
validateGapDirectory_success ==
    /\ pc = "validated"
    /\ script = "validate-structure.js"
    /\ stdout' = Append(stdout, OutLine(gapName, MsgValidated, 0))
    /\ IF mode = "discovery"
       THEN /\ idx' = idx + 1
            /\ pc' = "loop"
       ELSE /\ pc' = "exit"
            /\ UNCHANGED idx
    /\ UNCHANGED <<inputs, mode, gapDirs, dirPath, gapName, content, metadata,
                   stderr, exitCode, executed>>

(* part_000 main(): validateMetadata returns and main ends, status 0 *)
main_part_000_return ==
    /\ pc = "validated"
    /\ script = "part_000"
    /\ pc' = "exit"
    /\ UNCHANGED <<inputs, mode, gapDirs, idx, dirPath, gapName, content, metadata,
                   stdout, stderr, exitCode, executed>>

Next ==
    \/ main
    \/ forOf
    \/ validateGapDirectory
    \/ main_part_000
    \/ validateDirectoryNaming
    \/ validateReadmeExists
    \/ validateMetadata_exists
    \/ validateMetadata_read
    \/ validateMetadata_parse
    \/ validateMetadata_typeof
    \/ validateMetadata_schema
    \/ validateMetadata_authors
    \/ validateMetadata_sponsor
    \/ validateMetadata_discussion
    \/ validateGapDirectory_success
    \/ main_part_000_return

Spec == Init /\ [][Next]_vars

(* --------------- the naming check on a large set of names -------------- *)
NamePrefixes ==
    {GapPrefix, <<"g", "a", "p", "-">>, <<"G", "A", "P">>, <<"X", "G", "A", "P", "-">>}

SuffixChars == {"0", "7", "x"}

NamingNames == {p \o x : p \in NamePrefixes, x \in SeqsUpTo(SuffixChars, MaxSuffixLen)}

InitNaming ==
    /\ script \in Scripts
    /\ \E n \in NamingNames :
          /\ positionals = <<join(rootDir, n)>>
          /\ entries = <<Node(n, TRUE, TRUE, GoodMeta)>>
    /\ pc = "main"
    /\ mode = "none"
    /\ gapDirs = <<>>
    /\ idx = 0
    /\ dirPath = <<>>
    /\ gapName = NoText
    /\ content = NoMeta
    /\ metadata = NoValue
    /\ stdout = <<>>
    /\ stderr = <<>>
    /\ exitCode = 0
    /\ executed = <<>>

NextNaming ==
    \/ main
    \/ main_part_000
    \/ validateGapDirectory
    \/ validateDirectoryNaming

SpecNaming == InitNaming /\ [][NextNaming]_vars

(* ------------------------ vocabulary of the claims --------------------- *)
Terminated == pc = "exit"

Last(q) == q[Len(q)]

IsPrefix(a, b) == Len(a) <= Len(b) /\ SubSeq(b, 1, Len(a)) = a

(* the names the specification allows: GAP-0, or GAP- and four digits *)
ValidNames ==
    {GAP0} \cup {GapPrefix \o <<a, b, c, d>> : a \in Digit, b \in Digit, c \in Digit, d \in Digit}

HasGapPrefix(n) ==
    Len(n) >= 4 /\ n[1] = "G" /\ n[2] = "A" /\ n[3] = "P" /\ n[4] = "-"

EntrySet == {entries[i] : i \in 1..Len(entries)}

Present(path) == \E e \in EntrySet : <<rootDir[1], e.name>> = path

EntryAt(path) == CHOOSE e \in EntrySet : <<rootDir[1], e.name>> = path

PresentDir(path) == Present(path) /\ EntryAt(path).isDir

(* the checks of one directory, in the order the specification gives *)
ClaimChecks ==
    <<"naming", "readme", "metadataExists", "parse", "typeof", "schema",
      "authors", "sponsor", "discussion">>

MsgOf(c) ==
    CASE c = "naming" -> MsgNaming
      [] c = "readme" -> MsgReadme
      [] c = "metadataExists" -> MsgNoMetadata
      [] c = "parse" -> MsgYaml
      [] c = "typeof" -> MsgObject
      [] c = "schema" -> MsgSchema
      [] c = "authors" -> MsgAuthor
      [] c = "sponsor" -> MsgSponsor
      [] c = "discussion" -> MsgDiscussion

AuthorsValid(v) == \A i \in 1..Len(v.authors) : isEmail(v.authors[i])

SponsorValid(v) == v.sponsor # <<>> /\ v.sponsor[1] = "@"

(* the outcome of check c on entry e, as the check itself decides it *)
Outcome(c, e) ==
    CASE c = "naming" -> e.name \in ValidNames
      [] c = "readme" -> e.readme
      [] c = "metadataExists" -> e.meta.exists
      [] c = "parse" -> e.meta.wellformed
      [] c = "typeof" -> typeof(e.meta.value) = "object"
      [] c = "schema" -> validateMetadataSchema(e.meta.value)
      [] c = "authors" -> AuthorsValid(e.meta.value)
      [] c = "sponsor" -> SponsorValid(e.meta.value)
      [] c = "discussion" -> isURL(e.meta.value.discussion)

(* what the failure line of check c on entry e quotes *)
Quoted(c, e) ==
    CASE c = "authors" ->
            LET a == e.meta.value.authors
                i == CHOOSE i \in 1..Len(a) :
                        ~isEmail(a[i]) /\ \A j \in 1..(i - 1) : isEmail(a[j])
            IN a[i]
      [] c = "sponsor" -> e.meta.value.sponsor
      [] c = "discussion" -> e.meta.value.discussion
      [] OTHER -> NoText

(* a directory that passes every check *)
AllPass(e) ==
    /\ e.isDir
    /\ e.name \in ValidNames
    /\ e.readme
    /\ e.meta.exists /\ e.meta.readable /\ e.meta.wellformed
    /\ e.meta.value.type = "mapping"
    /\ e.meta.value.conforms
    /\ AuthorsValid(e.meta.value)
    /\ SponsorValid(e.meta.value)
    /\ isURL(e.meta.value.discussion)

(* the checks run on directory d so far, in the order they ran *)
ChecksOf(d) ==
    LET mine == SelectSeq(executed, LAMBDA x : x[1] = d)
    IN [k \in 1..Len(mine) |-> mine[k][2]]

NamedChecksOf(d) == SelectSeq(ChecksOf(d), LAMBDA c : c # "read")

Visited == {executed[k][1] : k \in 1..Len(executed)}

Successes == SelectSeq(stdout, LAMBDA l : l.message = MsgValidated)

(* ------------------------------- claims -------------------------------- *)

(* C1: the checks of a directory run in the order naming, README,          *)
(* metadata.yml exists, YAML parse, top-level type, schema, authors,       *)
(* sponsor, discussion; every check before the last one run has passed;    *)
(* when the last one run fails, the process has ended with exactly that    *)
(* check's failure line (for authors, quoting the first invalid author)    *)
(* and it is the last check of the run.  A failure to read metadata.yml,   *)
(* which is none of the nine, comes after the three checks before the      *)
(* parse have passed and likewise ends the run.                            *)
C1_EarliestFailureOnly ==
    \A d \in Visited :
        LET e == EntryAt(d)
            run == NamedChecksOf(d)
            n == Len(run)
        IN /\ IsPrefix(run, ClaimChecks)
           /\ IsPrefix(ChecksOf(d),
                       <<"naming", "readme", "metadataExists", "read">> \o
                       SubSeq(ClaimChecks, 4, 9))
           /\ \A k \in 1..(n - 1) : Outcome(ClaimChecks[k], e)
           /\ (/\ n >= 1
               /\ Last(ChecksOf(d)) # "read"
               /\ ~Outcome(ClaimChecks[n], e))
              => /\ Terminated
                 /\ exitCode = 1
                 /\ stderr = <<Line(e.name, MsgOf(ClaimChecks[n]), Quoted(ClaimChecks[n], e))>>
                 /\ Last(executed) = <<d, ClaimChecks[n]>>
           /\ (Last(ChecksOf(d)) = "read" /\ ~e.meta.readable)
              => /\ Terminated
                 /\ exitCode = 1
                 /\ stderr = <<Line(e.name, MsgRead, NoText)>>
                 /\ Last(executed) = <<d, "read">>
                 /\ n = 3
           /\ (Terminated /\ exitCode = 1 /\ d = dirPath)
              => \/ Last(ChecksOf(d)) = "read" /\ ~e.meta.readable
                 \/ ~Outcome(ClaimChecks[n], e)

C1_Witness ==
    /\ Terminated
    /\ stderr # <<>>
    /\ stderr[1].message = MsgAuthor
    /\ stderr[1].got = AuthorNoEmail
    /\ metadata.authors = <<AuthorNoEmail, AuthorJunk>>
    /\ ~SponsorValid(metadata)
    /\ ~isURL(metadata.discussion)

(* C2: in discovery mode the directories are validated one at a time in    *)
(* listing order, and once a check of a directory has failed the process   *)
(* has ended with a non-zero status: the failing check is the last check   *)
(* run, and no check of a directory later in the listing has run.          *)
C2_DiscoveryFailFast ==
    mode = "discovery" =>
        /\ \A k \in 1..Len(executed) :
              \E j \in 1..Len(gapDirs) :
                  /\ j <= idx
                  /\ executed[k][1] = gapDirs[j]
                  /\ \A l \in 1..(k - 1) :
                        \E i \in 1..j : executed[l][1] = gapDirs[i]
        /\ \A j \in 1..Len(gapDirs) :
              (j < idx /\ j <= Len(gapDirs)) => AllPass(EntryAt(gapDirs[j]))
        /\ stderr # <<>> =>
              /\ Terminated
              /\ exitCode = 1
              /\ Len(stderr) = 1
              /\ executed # <<>>
              /\ Last(executed)[1] = gapDirs[idx]
              /\ ~AllPass(EntryAt(gapDirs[idx]))
        /\ (Terminated /\ stderr = <<>>) =>
              \A j \in 1..Len(gapDirs) : AllPass(EntryAt(gapDirs[j]))

C2_Witness ==
    /\ mode = "discovery"
    /\ Terminated
    /\ exitCode = 1
    /\ idx < Len(gapDirs)
    /\ AllPass(EntryAt(gapDirs[idx + 1]))
    /\ gapDirs[idx + 1] \notin Visited

(* C3: the process ends with status 0 exactly when the run is a valid one: *)
(* in discovery mode at least one directory is discovered and every        *)
(* discovered directory passes every check; with one argument the target   *)
(* exists, is a directory and passes every check; every other run (a       *)
(* failed check, a usage error, a missing or non-directory target, an      *)
(* empty discovery) ends with a non-zero status.                           *)
RunValid ==
    IF script = "validate-structure.js" /\ Len(positionals) = 0
    THEN /\ \E e \in EntrySet : e.isDir /\ HasGapPrefix(e.name)
         /\ \A e \in EntrySet : (e.isDir /\ HasGapPrefix(e.name)) => AllPass(e)
    ELSE /\ Len(positionals) = 1
         /\ PresentDir(positionals[1])
         /\ AllPass(EntryAt(positionals[1]))

C3_ExitZeroIffAllPass == Terminated => (exitCode = 0 <=> RunValid)

C3_Witness ==
    /\ Terminated
    /\ exitCode = 0
    /\ mode = "discovery"
    /\ Len(gapDirs) >= 2

(* C4: the naming check accepts a base name exactly when it is GAP-0 or    *)
(* GAP- followed by exactly four decimal digits; it returns an accepted    *)
(* name, and rejects every other name with the naming error.               *)
C4_NamingAcceptsExactly ==
    (executed # <<>> /\ Last(executed)[2] = "naming") =>
        LET n == basename(dirPath) IN
        IF n \in ValidNames
        THEN pc = "readme" /\ gapName = n /\ stderr = <<>>
        ELSE /\ Terminated
             /\ exitCode = 1
             /\ stderr = <<Line(n, MsgNaming, NoText)>>

C4_Witness ==
    /\ executed # <<>>
    /\ pc = "readme"
    /\ Len(gapName) = 8
    /\ gapName[8] = "7"

(* what main has decided once it has run, for either entry point *)
UsageError ==
    /\ Terminated
    /\ exitCode = 1
    /\ Len(stderr) = 1
    /\ stderr[1].message \in {MsgUsage, MsgUsageOne}
    /\ stdout = <<>>
    /\ executed = <<>>

DiscoveryRun ==
    /\ ~UsageError
    /\ gapDirs = discoverGapDirectories
    /\ gapDirs # <<>> => mode = "discovery"
    /\ (Terminated /\ exitCode = 0) => \A j \in 1..Len(gapDirs) : gapDirs[j] \in Visited

SingleRun ==
    /\ ~UsageError
    /\ mode # "discovery"
    /\ gapDirs = <<>>
    /\ dirPath = positionals[1]
    /\ Visited \subseteq {positionals[1]}

C6_NoReadmeAlwaysReadmeError ==
    (Terminated /\ dirPath \in Visited /\ ~EntryAt(dirPath).readme) =>
        /\ exitCode = 1
        /\ stderr = <<Line(basename(dirPath), MsgReadme, NoText)>>

(* C6, amended: a directory that passes the naming check and does not      *)
(* contain README.md fails, once its validation has run to its end, with   *)
(* the README error, whatever its metadata.yml is.                         *)
C6_NoReadmeAfterNaming ==
    (/\ Terminated
     /\ dirPath \in Visited
     /\ basename(dirPath) \in ValidNames
     /\ ~EntryAt(dirPath).readme) =>
        /\ exitCode = 1
        /\ stderr = <<Line(basename(dirPath), MsgReadme, NoText)>>
        /\ Last(executed) = <<dirPath, "readme">>

C6_Witness ==
    /\ Terminated
    /\ dirPath \in Visited
    /\ basename(dirPath) \in ValidNames
    /\ ~EntryAt(dirPath).readme
    /\ EntryAt(dirPath).meta.exists
    /\ ~EntryAt(dirPath).meta.wellformed
    /\ stderr = <<Line(basename(dirPath), MsgReadme, NoText)>>

(* C7: once the top-level type check has run on a parsed value, the value  *)
(* has passed exactly when it is a mapping; a scalar or a sequence has     *)
(* been rejected by this check with the "valid YAML object" error.         *)
C7_TypeCheckAcceptsOnlyMappings ==
    (executed # <<>> /\ Last(executed) = <<dirPath, "typeof">>) =>
        IF metadata.type = "mapping"
        THEN pc = "schema" /\ stderr = <<>>
        ELSE /\ Terminated
             /\ exitCode = 1
             /\ stderr = <<Line(gapName, MsgObject, NoText)>>

(* C8: with one positional that is missing or is not a directory, the run  *)
(* ends with a non-zero status and the matching error line, and no         *)
(* structural check ever runs; a structural check runs only on a path      *)
(* that exists and is a directory.                                         *)
C8_TargetGuardBeforeChecks ==
    Len(positionals) = 1 =>
        /\ executed # <<>> => PresentDir(positionals[1])
        /\ (~PresentDir(positionals[1]) /\ pc \notin {"main", "validateGapDirectory"}) =>
              /\ Terminated
              /\ exitCode = 1
              /\ executed = <<>>
              /\ stdout = <<>>
              /\ stderr = <<Line(NoText,
                                 IF Present(positionals[1]) THEN MsgNotDir ELSE MsgMissingDir,
                                 pathText(positionals[1]))>>

C8_Witness ==
    /\ Len(positionals) = 1
    /\ Terminated
    /\ stderr # <<>>
    /\ stderr[1].message = MsgNotDir
    /\ HasGapPrefix(basename(positionals[1]))

(* C9: discovery returns exactly the root entries that are directories     *)
(* whose name begins with GAP-, in listing order; when there is none the   *)
(* run ends non-zero with "No GAP directories found", no count summary     *)
(* and no check run.                                                       *)
Selected == {i \in 1..Len(entries) : entries[i].isDir /\ HasGapPrefix(entries[i].name)}

C9_DiscoveryExact ==
    (script = "validate-structure.js" /\ Len(positionals) = 0 /\ pc # "main") =>
        /\ Len(gapDirs) = Cardinality(Selected)
        /\ \A i \in Selected :
              gapDirs[Cardinality({j \in Selected : j < i}) + 1] = <<rootDir[1], entries[i].name>>
        /\ Selected = {} =>
              /\ Terminated
              /\ exitCode = 1
              /\ stderr = <<Line(NoText, MsgNoGaps, NoText)>>
              /\ stdout = <<>>
              /\ executed = <<>>
        /\ Selected # {} => stdout[1] = OutLine(NoText, MsgFound, Cardinality(Selected))

C9_Witness ==
    /\ script = "validate-structure.js"
    /\ Len(positionals) = 0
    /\ pc # "main"
    /\ Len(entries) = 3
    /\ Len(gapDirs) = 2
    /\ 2 \notin Selected
    /\ HasGapPrefix(entries[2].name)

(* C10: a success line is emitted for a directory only after every check   *)
(* of it has passed; a run emits at most one failure line; in discovery    *)
(* mode the success lines are those of the directories before the first    *)
(* failing one, in listing order (all of them when none fails), so that    *)
(* none follows the failure line.                                          *)
FailingIndexes == {j \in 1..Len(gapDirs) : ~AllPass(EntryAt(gapDirs[j]))}

PassedBeforeFailure ==
    IF FailingIndexes = {} THEN Len(gapDirs)
    ELSE (CHOOSE j \in FailingIndexes : \A k \in FailingIndexes : j <= k) - 1

C10_SuccessLines ==
    /\ Len(stderr) <= 1
    /\ stderr # <<>> => Terminated /\ exitCode = 1
    /\ script = "part_000" => Successes = <<>>
    /\ mode = "single" =>
          /\ Len(Successes) <= 1
          /\ Successes # <<>> =>
                /\ Successes[1].gapName = basename(positionals[1])
                /\ AllPass(EntryAt(positionals[1]))
                /\ Len(NamedChecksOf(positionals[1])) = 9
                /\ stderr = <<>>
    /\ mode = "discovery" =>
          /\ Len(Successes) <= PassedBeforeFailure
          /\ \A k \in 1..Len(Successes) :
                /\ Successes[k].gapName = basename(gapDirs[k])
                /\ AllPass(EntryAt(gapDirs[k]))
                /\ Len(NamedChecksOf(gapDirs[k])) = 9
          /\ Terminated => Len(Successes) = PassedBeforeFailure
          /\ stderr # <<>> => Len(Successes) = idx - 1
    /\ mode = "none" => Successes = <<>>

C10_Witness ==
    /\ mode = "discovery"
    /\ Terminated
    /\ exitCode = 1
    /\ Len(Successes) >= 1
    /\ idx < Len(gapDirs)

====
